---- MODULE Spec2Model ----
(***************************************************************************)
(* eml2cal: reservation emails -> calendar events -> CalDAV upload.        *)
(*                                                                         *)
(* Python values are modelled as follows.                                  *)
(*   dict          a TLA+ record; an absent key is absent from its DOMAIN  *)
(*   str           [kind |-> "str", s |-> tokens], "" having no token      *)
(*   None          the record None                                         *)
(*   date          [kind |-> "date", day |-> d]          d = days          *)
(*   datetime      [kind |-> "datetime", t |-> s, tz |-> z]  s = seconds   *)
(*   an exception  the record Raise(name) returned in place of a value     *)
(* Of an icalendar Event the properties dtstart, dtend, summary, duration, *)
(* description, categories, attendee and the alarm sub-components are      *)
(* tracked.                                                                *)
(***************************************************************************)
EXTENDS Integers, Sequences, FiniteSets, TLC

----------------------------------------------------------------------------
(* Bounds of the model *)

\* number of emails in the mailbox
MaxEmails == 2
\* number of events handed directly to save_events
MaxEvents == 2

\* seconds in timedelta(days=1)
DaySecs == 86400

----------------------------------------------------------------------------
(* Python values *)

None == [kind |-> "none"]

Raise(name) == [kind |-> "raise", exc |-> name]

IsRaise(v) == "kind" \in DOMAIN v /\ v.kind = "raise"

Date(d) == [kind |-> "date", day |-> d]

DateTime(s, z) == [kind |-> "datetime", t |-> s, tz |-> z]

\* isinstance(v, datetime)
IsDateTime(v) == v.kind = "datetime"

\* a str made of the given tokens
Str(tokens) == [kind |-> "str", s |-> tokens]

\* a + b on two str
Concat(a, b) == Str(a.s \o b.s)

EmptyDict == [k \in {} |-> None]

\* dict.get(k, default)
DictGet(d, k, default) == IF k \in DOMAIN d THEN d[k] ELSE default

\* d[k] = v on a dict (Event.add of a property not yet present)
DictSet(d, k, v) == [x \in DOMAIN d \cup {k} |-> IF x = k THEN v ELSE d[x]]

\* truth value of None, a str, a non-empty dict, a date or a datetime
\* the booleans of a parsed TOML file
Bool(b) == [kind |-> "bool", b |-> b]

Truthy(v) == v # None /\ v # Str(<< >>) /\ v # Bool(FALSE)

----------------------------------------------------------------------------
(* utils.py *)

RECURSIVE ChainedWalk(_, _, _)
ChainedWalk(result, keys, default) ==
    IF keys = << >> THEN result
    ELSE IF Head(keys) \in DOMAIN result
         THEN ChainedWalk(result[Head(keys)], Tail(keys), default)
         ELSE default

\* chained_get(d, k0, k1, ..., default): the dotted key is the sequence keys
chained_get(d, keys, default) ==
    ChainedWalk(DictGet(d, Head(keys), EmptyDict), Tail(keys), default)

\* parse_duration("HH:MM:SS"): a duration string is [h, m, s] when it has
\* three integer fields and [bad |-> TRUE] when split/int fail
parse_duration(duration) ==
    IF "bad" \in DOMAIN duration THEN Raise("ValueError")
    ELSE [kind |-> "timedelta",
          secs |-> duration.h * 3600 + duration.m * 60 + duration.s]

airport_repr(name, iata) ==
    IF Truthy(name) /\ ~Truthy(iata) THEN name
    ELSE IF Truthy(iata) /\ ~Truthy(name) THEN iata
    ELSE IF Truthy(name) /\ Truthy(iata) THEN Concat(name, Concat(Str(<<" (">>), Concat(iata, Str(<<")">>))))
    ELSE None

----------------------------------------------------------------------------
(* schema_org.py *)

\* dateutil isoparse of an ISO-8601 string [j |-> "str", t, tz]
isoparse(s) == DateTime(s.t, s.tz)

\* datetime.astimezone(zone): same instant, other zone
astimezone(dt, zone) == DateTime(dt.t, zone)

parse_datetime(dt_data) ==
    IF dt_data.j = "str" THEN isoparse(dt_data)
    ELSE IF dt_data.j = "dict"
         THEN IF "timezone" \in DOMAIN dt_data
              THEN astimezone(isoparse(dt_data.value), dt_data.timezone)
              ELSE None
         ELSE Raise("ValueError")

is_reservation(thing) == "reservationFor" \in DOMAIN thing

----------------------------------------------------------------------------
(* config.py *)

\* variant: the general section first, the type-scoped one as its default
get_res_conf_option_general_first(config, key, res_type, default) ==
    chained_get(config, <<"postprocess", key>>,
                chained_get(config, <<"postprocess", res_type, key>>, default))

\* get_res_conf_option(config, key, res_type, default): the type-scoped
\* section postprocess.<res_type> first, then the general postprocess section
get_res_conf_option(config, key, res_type, default) ==
    chained_get(config, <<"postprocess", res_type, key>>,
                chained_get(config, <<"postprocess", key>>, default))

----------------------------------------------------------------------------
(* postprocess.py *)

\* icalendar.Event()
NewEvent == [component |-> "VEVENT"]

\* the candidates of one side in the order the three nested loops visit them:
\* key (Time, Date) outermost, then dict (reservation, reservationFor)
TimeCandidates(reservation, timeKey, dateKey) ==
    LET res_for == DictGet(reservation, "reservationFor", EmptyDict)
    IN  << DictGet(reservation, timeKey, None), DictGet(res_for, timeKey, None),
           DictGet(reservation, dateKey, None), DictGet(res_for, dateKey, None) >>

\* found[s] after the loops: a candidate is parsed only while found[s] is falsy
RECURSIVE FirstFound(_, _)
FirstFound(cands, found) ==
    IF cands = << >> THEN found
    ELSE IF Truthy(Head(cands)) /\ ~Truthy(found)
         THEN FirstFound(Tail(cands), parse_datetime(Head(cands)))
         ELSE FirstFound(Tail(cands), found)

\* the pair returned, or the exception parse_datetime raised
TimesOf(start, end) ==
    IF IsRaise(start) THEN start
    ELSE IF IsRaise(end) THEN end
    ELSE [start |-> start, end |-> end]

get_times(reservation) ==
    TimesOf(FirstFound(TimeCandidates(reservation, "startTime", "startDate"), None),
            FirstFound(TimeCandidates(reservation, "endTime", "endDate"), None))

\* Event.add(name, value) for a date/datetime property: vDDDTypes(None) raises
AddTime(event, name, value) ==
    IF IsRaise(value) THEN value
    ELSE IF value = None THEN Raise("ValueError")
    ELSE DictSet(event, name, value)

\* if value: event.add(name, value)
AddIfTruthy(event, name, value) ==
    IF Truthy(value) THEN DictSet(event, name, value) ELSE event

\* lines 90-91: if "name" in res_for: event.add("summary", res_for["name"])
AddName(event, res_for) ==
    IF "name" \in DOMAIN res_for THEN DictSet(event, "summary", res_for.name) ELSE event

\* lines 78-91: dtstart, dtend and summary of the generic event
GenericFrom(times, res_for) ==
    IF IsRaise(times) THEN times
    ELSE AddName(AddIfTruthy(AddIfTruthy(NewEvent, "dtstart", times.start),
                             "dtend", times.end),
                 res_for)

\* actions[k] = v on the items of an OrderedDict, [key, value] in insertion
\* order: an existing key keeps its place and takes the new value
OrderedPut(od, k, v) ==
    IF \E n \in 1..Len(od) : od[n].key = k
    THEN [n \in 1..Len(od) |-> IF od[n].key = k THEN [key |-> k, value |-> v] ELSE od[n]]
    ELSE Append(od, [key |-> k, value |-> v])

\* lines 60-62: an action without target is skipped
RECURSIVE ActionUrls(_, _)
ActionUrls(potentialAction, actions) ==
    IF potentialAction = << >> THEN actions
    ELSE ActionUrls(Tail(potentialAction),
                    IF "target" \in DOMAIN Head(potentialAction)
                    THEN OrderedPut(actions, Head(potentialAction).type,
                                    Head(potentialAction).target)
                    ELSE actions)

\* get_action_urls: None without potentialAction; a["@type"] is the key type
get_action_urls(reservation) ==
    IF "potentialAction" \notin DOMAIN reservation THEN None
    ELSE [kind |-> "OrderedDict", items |-> ActionUrls(reservation.potentialAction, << >>)]

\* str.rstrip(chars) on the characters of a str: every trailing character
\* that is in chars is removed
RECURSIVE rstrip(_, _)
rstrip(cs, chars) ==
    IF cs = << >> THEN cs
    ELSE IF cs[Len(cs)] \in chars THEN rstrip(SubSeq(cs, 1, Len(cs) - 1), chars)
    ELSE cs

\* lines 97-101: aname = a.rstrip("Action"); f"{aname}: {url}"
RECURSIVE ActionLines(_)
ActionLines(actions) ==
    IF actions = << >> THEN << >>
    ELSE <<Str(rstrip(Head(actions).key.s, {"A", "c", "t", "i", "o", "n"})
               \o <<": ">> \o Head(actions).value.s)>>
         \o ActionLines(Tail(actions))

\* lines 93-101: desc_lines; None and an empty OrderedDict are falsy
DescLines(reservation) ==
    (IF Truthy(DictGet(reservation, "reservationNumber", None))
     THEN <<Str(<<"Reservation number: ">> \o reservation.reservationNumber.s)>>
     ELSE << >>)
    \o (IF get_action_urls(reservation) = None THEN << >>
        ELSE ActionLines(get_action_urls(reservation).items))

\* "\n".join(lines)
RECURSIVE JoinLines(_)
JoinLines(lines) ==
    IF Len(lines) = 1 THEN Head(lines)
    ELSE Concat(Head(lines), Concat(Str(<<"\n">>), JoinLines(Tail(lines))))

\* lines 102-103
AddDescription(event, desc_lines) ==
    IF IsRaise(event) \/ desc_lines = << >> THEN event
    ELSE DictSet(event, "description", JoinLines(desc_lines))

generic_reservation_to_ical_event(reservation) ==
    AddDescription(GenericFrom(get_times(reservation), reservation.reservationFor),
                   DescLines(reservation))

\* lines 118-124: the start of a flight; None is the bare return
FlightStart(event, res_for) ==
    IF "dtstart" \in DOMAIN event THEN event
    ELSE IF Truthy(DictGet(res_for, "departureTime", None))
         THEN AddTime(event, "dtstart", parse_datetime(res_for.departureTime))
         ELSE IF Truthy(DictGet(res_for, "departureDay", None))
              THEN DictSet(event, "dtstart", Date(res_for.departureDay.day))
              ELSE None

\* parse_datetime(...).astimezone(utc): None has no astimezone
ToUtc(p) ==
    IF IsRaise(p) THEN p
    ELSE IF p = None THEN Raise("AttributeError")
    ELSE astimezone(p, "UTC")

\* lines 125-126
FlightEnd(event, res_for) ==
    IF "dtend" \notin DOMAIN event /\ "arrivalTime" \in DOMAIN res_for
    THEN AddTime(event, "dtend", ToUtc(parse_datetime(res_for.arrivalTime)))
    ELSE event

\* x or y on two optional str
OrElse(x, y) == IF Truthy(x) THEN x ELSE y

\* lines 153-160
FlightSummary(flight_iata, origin, destination) ==
    Str(<<"Flight">>
        \o (IF Truthy(flight_iata) THEN <<" ">> \o flight_iata.s ELSE << >>)
        \o <<": ">>
        \o OrElse(origin, Str(<< >>)).s
        \o <<" to ">>
        \o OrElse(destination, Str(<<"[unknown]">>)).s)

\* lines 131-134, 147-149: the name or the code of the departure airport
DepAirportField(res_for, k) ==
    IF Truthy(DictGet(res_for, "departureAirport", None))
    THEN DictGet(res_for.departureAirport, k, None)
    ELSE None

\* lines 128-160: the summary of a flight; str + None raises TypeError
FlightName(res_for) ==
    IF "flightNumber" \notin DOMAIN res_for THEN Raise("TypeError")
    ELSE FlightSummary(
           Concat(DictGet(DictGet(res_for, "airline", EmptyDict), "iataCode", Str(<< >>)),
                  res_for.flightNumber),
           airport_repr(DepAirportField(res_for, "name"), DepAirportField(res_for, "iataCode")),
           airport_repr(chained_get(res_for, <<"arrivalAirport", "name">>, None),
                        chained_get(res_for, <<"arrivalAirport", "iataCode">>, None)))

\* event["summary"] = vText(name)
SetSummary(event, name) ==
    IF IsRaise(name) THEN name ELSE DictSet(event, "summary", name)

\* lines 125-167 on the event that has a start
FlightRest(event, res_for) ==
    IF IsRaise(event) THEN event
    ELSE SetSummary(event, FlightName(res_for))

\* lines 118-167 on the generic event
FlightFrom(event, res_for) ==
    IF IsRaise(event) \/ event = None THEN event
    ELSE FlightRest(FlightEnd(event, res_for), res_for)

\* Event.add(name, value) of a text property: a value already there is kept
\* and the property becomes the list of the two
EventAdd(event, name, value) ==
    IF name \in DOMAIN event
    THEN DictSet(event, name, [kind |-> "list", items |-> <<event[name], value>>])
    ELSE DictSet(event, name, value)

\* lines 163-165: f"{name}\nReservation number: {res_num}"
FlightDescription(event, res_num) ==
    IF IsRaise(event) \/ event = None \/ ~Truthy(res_num) THEN event
    ELSE EventAdd(event, "description",
                  Str(event.summary.s \o <<"\nReservation number: ">> \o res_num.s))

flight_reservation_to_ical_event(reservation) ==
    IF IsRaise(generic_reservation_to_ical_event(reservation))
    THEN generic_reservation_to_ical_event(reservation)
    ELSE FlightDescription(
           FlightFrom(FlightStart(generic_reservation_to_ical_event(reservation),
                                  reservation.reservationFor),
                      reservation.reservationFor),
           DictGet(reservation, "reservationNumber", None))

\* lines 178-182: the start of a stay; None is the bare return
LodgingStart(event, reservation) ==
    IF IsRaise(event) \/ "dtstart" \in DOMAIN event THEN event
    ELSE IF Truthy(DictGet(reservation, "checkinTime", None))
         THEN AddTime(event, "dtstart", parse_datetime(reservation.checkinTime))
         ELSE None

\* lines 183-185
LodgingEnd(event, reservation) ==
    IF IsRaise(event) \/ event = None THEN event
    ELSE IF "dtend" \notin DOMAIN event /\ Truthy(DictGet(reservation, "checkoutTime", None))
         THEN AddTime(event, "dtend", parse_datetime(reservation.checkoutTime))
         ELSE event

lodging_reservation_to_ical_event(reservation) ==
    LodgingEnd(LodgingStart(generic_reservation_to_ical_event(reservation), reservation),
               reservation)

\* add_attendee: vCalAddress with ROLE=REQ-PARTICIPANT appended to the attendees
add_attendee(event, email_addr) ==
    DictSet(event, "attendee",
            Append(DictGet(event, "attendee", << >>),
                   [addr |-> email_addr, role |-> "REQ-PARTICIPANT"]))

\* lines 222-223
RECURSIVE AddAttendees(_, _)
AddAttendees(event, addrs) ==
    IF addrs = << >> THEN event
    ELSE AddAttendees(add_attendee(event, Head(addrs)), Tail(addrs))

\* event.add("duration", parse_duration(dur))
AddDuration(event, d) ==
    IF IsRaise(d) THEN d ELSE DictSet(event, "duration", d)

\* variant: the default duration is set whatever the event has
AddDefaultDurationAlways(event, dur) ==
    IF Truthy(dur) THEN AddDuration(event, parse_duration(dur)) ELSE event

\* lines 227-230
AddDefaultDuration(event, dur) ==
    IF ~("dtend" \in DOMAIN event \/ "duration" \in DOMAIN event) /\ Truthy(dur)
    THEN AddDuration(event, parse_duration(dur))
    ELSE event

\* lines 232-239: event.pop("categories") is None when the event has none and
\* a vCategory object (always truthy) otherwise; existing.cats.append() takes
\* no argument and raises TypeError.  An absent or empty list option is << >>
AppendCategories(event, cats) ==
    IF IsRaise(event) THEN event
    ELSE IF cats # << >> /\ "categories" \in DOMAIN event
         THEN IF \E n \in 1..Len(cats) :
                    \A m \in 1..Len(event.categories) : event.categories[m] # cats[n]
              THEN Raise("TypeError")
              ELSE event
         ELSE event

\* variant: the trigger is the lead time after the start
AddAlarmAfter(event, d) ==
    IF IsRaise(d) THEN d
    ELSE DictSet(event, "alarms",
                 Append(DictGet(event, "alarms", << >>),
                        [action |-> "audio", trigger |-> d.secs]))

\* a.add("action", "audio"); a.add("trigger", parse_duration(dur) * -1)
AddAlarm(event, d) ==
    IF IsRaise(d) THEN d
    ELSE DictSet(event, "alarms",
                 Append(DictGet(event, "alarms", << >>),
                        [action |-> "audio", trigger |-> d.secs * (-1)]))

\* lines 241-247
RECURSIVE AddAlarms(_, _)
AddAlarms(event, alarms) ==
    IF IsRaise(event) \/ alarms = << >> THEN event
    ELSE AddAlarms(AddAlarm(event, parse_duration(Head(alarms))), Tail(alarms))

\* the event as mutated in place, or the exception raised
augment_event(event, config, reservation_type) ==
    AddAlarms(
      AppendCategories(
        AddDefaultDuration(
          AddAttendees(event, get_res_conf_option(config, "attendees", reservation_type, << >>)),
          get_res_conf_option(config, "default_duration", reservation_type, None)),
        get_res_conf_option(config, "categories", reservation_type, << >>)),
      get_res_conf_option(config, "alarms", reservation_type, << >>))

\* converters.get(res_type, generic_reservation_to_ical_event)(reservation)
Convert(res_type, reservation) ==
    IF res_type = "FlightReservation" THEN flight_reservation_to_ical_event(reservation)
    ELSE IF res_type = "LodgingReservation" THEN lodging_reservation_to_ical_event(reservation)
    ELSE generic_reservation_to_ical_event(reservation)

\* variant: event = augment_event(...), whose return value is None
AugmentIfEventAssigning(event, config, res_type) ==
    IF IsRaise(event) \/ event = None THEN event
    ELSE IF IsRaise(augment_event(event, config, res_type))
         THEN augment_event(event, config, res_type)
         ELSE None

\* lines 199-201: a Component is always truthy
AugmentIfEvent(event, config, res_type) ==
    IF IsRaise(event) \/ event = None THEN event
    ELSE augment_event(event, config, res_type)

\* reservation["@type"] is the key type
reservation_to_ical_event(reservation, config) ==
    IF "type" \notin DOMAIN reservation THEN Raise("KeyError")
    ELSE AugmentIfEvent(Convert(reservation.type, reservation), config, reservation.type)

\* variant: a summary is enough
event_has_summary(event) == "summary" \in DOMAIN event

\* event_is_valid: "dtstart" in event and "summary" in event
event_is_valid(event) == "dtstart" \in DOMAIN event /\ "summary" \in DOMAIN event

----------------------------------------------------------------------------
(* extractor.py, preprocess.py, process.py *)

\* build_cmd: shlex.split of extractor.command; an empty command raises
build_cmd(config) ==
    IF chained_get(config, <<"extractor", "command">>, Str(<< >>)) = Str(<< >>)
    THEN Raise("ValueError")
    ELSE chained_get(config, <<"extractor", "command">>, Str(<< >>))

\* variant: a non-zero exit is taken as an empty result
extract_lenient(cmd, email) ==
    IF email.out.returncode # 0 THEN [raised |-> FALSE, things |-> << >>]
    ELSE IF ~email.out.json THEN [raised |-> TRUE, exc |-> "JSONDecodeError"]
    ELSE [raised |-> FALSE, things |-> email.out.things]

\* extract: the outcome of the extractor subprocess on an email is the email's
\* field out: its return code, whether its stdout parses as JSON, and the
\* parsed list.  [raised |-> TRUE, exc] or [raised |-> FALSE, things]
extract(cmd, email) ==
    IF email.out.returncode # 0 THEN [raised |-> TRUE, exc |-> "SystemError"]
    ELSE IF ~email.out.json THEN [raised |-> TRUE, exc |-> "JSONDecodeError"]
    ELSE [raised |-> FALSE, things |-> email.out.things]

\* for copy_from in headers: if copy_from in email: replace_header(copy_to, ...),
\* which raises KeyError when the email has no header copy_to
ReplaceRaises(email, headers) ==
    \E copy_from \in DOMAIN headers :
        copy_from \in email.headers /\ headers[copy_from] \notin email.headers

\* preprocess_email: TRUE iff it raises
preprocess_raises(email, config) ==
    ReplaceRaises(email, chained_get(config, <<"preprocess", "headers">>, EmptyDict))

\* list(filter(is_reservation, thing_dicts))
RECURSIVE FilterReservations(_)
FilterReservations(things) ==
    IF things = << >> THEN << >>
    ELSE (IF is_reservation(Head(things)) THEN <<Head(things)>> ELSE << >>)
         \o FilterReservations(Tail(things))

\* lines 50-58: the events that event_is_valid keeps
RECURSIVE ValidEvents(_)
ValidEvents(events) ==
    IF events = << >> THEN << >>
    ELSE (IF event_is_valid(Head(events)) THEN <<Head(events)>> ELSE << >>)
         \o ValidEvents(Tail(events))

\* variant: a rejected reservation fails the email
ConvertedStrict(acc, e) ==
    IF IsRaise(e) THEN [raised |-> TRUE, exc |-> e.exc]
    ELSE IF e # None THEN [raised |-> FALSE, events |-> Append(acc.events, e)]
    ELSE [raised |-> TRUE, exc |-> "ValueError"]

\* variant: a reservation that raises is skipped like a rejected one
ConvertedSkipping(acc, e) ==
    IF IsRaise(e) THEN acc
    ELSE IF e # None THEN [raised |-> FALSE, events |-> Append(acc.events, e)]
    ELSE acc

\* lines 40-48: one reservation converted; e is an event, None or an exception
Converted(acc, e) ==
    IF IsRaise(e) THEN [raised |-> TRUE, exc |-> e.exc]
    ELSE IF e # None THEN [raised |-> FALSE, events |-> Append(acc.events, e)]
    ELSE acc

\* lines 37-48: the events in order, or the first exception raised
RECURSIVE ConvertAll(_, _, _)
ConvertAll(reservation_dicts, config, acc) ==
    IF acc.raised \/ reservation_dicts = << >> THEN acc
    ELSE ConvertAll(Tail(reservation_dicts), config,
                    Converted(acc, reservation_to_ical_event(Head(reservation_dicts), config)))

\* lines 50-63
ValidOf(c) ==
    IF c.raised THEN c ELSE [raised |-> FALSE, events |-> ValidEvents(c.events)]

\* lines 33-63 on what extract gave
ProcessExtracted(x, config) ==
    IF x.raised THEN x
    ELSE ValidOf(ConvertAll(FilterReservations(x.things), config,
                            [raised |-> FALSE, events |-> << >>]))

\* process_email: [raised |-> TRUE, exc] or [raised |-> FALSE, events |-> valid_events]
process_email(email, config) ==
    IF IsRaise(build_cmd(config)) THEN [raised |-> TRUE, exc |-> build_cmd(config).exc]
    ELSE ProcessExtracted(extract(build_cmd(config), email), config)

\* EmailSummary.from_email: the Date, From and Subject headers; the model
\* identifies an email by its Subject
EmailSummary(email) == [subject |-> email.subject]

EventEmailSummary(email, num_total_events, num_unique_events) ==
    [email_summary |-> EmailSummary(email),
     num_total_events |-> num_total_events,
     num_unique_events |-> num_unique_events]

\* variant: the summary is part of the key
TimeKeyWithSummary(e) ==
    <<DictGet(e, "dtstart", None), DictGet(e, "dtend", None), DictGet(e, "summary", None)>>

\* t = (e.get("dtstart"), e.get("dtend"))
TimeKey(e) == <<DictGet(e, "dtstart", None), DictGet(e, "dtend", None)>>

\* variant: a duplicate is counted as unique too
AddOneCountingAll(acc, e, t) ==
    IF t \notin acc.added_times
    THEN [events |-> Append(acc.events, e),
          added_times |-> acc.added_times \cup {t},
          uniques |-> acc.uniques + 1]
    ELSE [acc EXCEPT !.uniques = @ + 1]

\* lines 93-99: one event against [events, added_times, uniques]
AddOne(acc, e, t) ==
    IF t \notin acc.added_times
    THEN [events |-> Append(acc.events, e),
          added_times |-> acc.added_times \cup {t},
          uniques |-> acc.uniques + 1]
    ELSE acc

\* lines 90-99: the loop over new_events
RECURSIVE AddUnique(_, _)
AddUnique(new_events, acc) ==
    IF new_events = << >> THEN acc
    ELSE AddUnique(Tail(new_events), AddOne(acc, Head(new_events), TimeKey(Head(new_events))))

----------------------------------------------------------------------------
(* legacy_python/evt2cal.py *)

\* variant: a duplicate is dropped and its key forgotten
RECURSIVE DedupeForgetting(_, _, _)
DedupeForgetting(events, key_details, deduped) ==
    IF events = << >> THEN deduped
    ELSE IF TimeKey(Head(events)) \notin key_details
         THEN DedupeForgetting(Tail(events), key_details \cup {TimeKey(Head(events))},
                               Append(deduped, Head(events)))
         ELSE DedupeForgetting(Tail(events), key_details \ {TimeKey(Head(events))}, deduped)

RECURSIVE DedupeFrom(_, _, _)
DedupeFrom(events, key_details, deduped) ==
    IF events = << >> THEN deduped
    ELSE IF TimeKey(Head(events)) \notin key_details
         THEN DedupeFrom(Tail(events), key_details \cup {TimeKey(Head(events))},
                         Append(deduped, Head(events)))
         ELSE DedupeFrom(Tail(events), key_details, deduped)

dedupe_events(events) == DedupeFrom(events, {}, << >>)

----------------------------------------------------------------------------
(* cal_utils.py *)

\* datetime(d.year, d.month, d.day, 0, 0): the naive midnight of a date
Midnight(d) == DateTime(d.day * DaySecs, "naive")

\* dt + timedelta(seconds=secs)
PlusSeconds(dt, secs) == DateTime(dt.t + secs, dt.tz)

\* variant: a bare date start opens the window at the next midnight
WindowStartNextDay(start) ==
    IF ~IsDateTime(start) THEN PlusSeconds(Midnight(start), DaySecs) ELSE start

\* lines 35-38
WindowStart(start) == IF ~IsDateTime(start) THEN Midnight(start) ELSE start

\* variant: a bare date start gets no end of its own
DefaultEndNone(start, end) == end

\* lines 35-38: a bare date start without end gets the next midnight as end
DefaultEnd(start, end) ==
    IF ~IsDateTime(start) /\ end = None
    THEN PlusSeconds(Midnight(start), DaySecs) ELSE end

\* lines 39-40 on an end that is not None
DateEnd(end) ==
    IF ~IsDateTime(end) THEN PlusSeconds(Midnight(end), DaySecs) ELSE end

\* variant: a bare date end is taken at its own midnight
WindowEndSameDay(start, end) ==
    IF DefaultEnd(start, end) = None THEN None
    ELSE IF ~IsDateTime(DefaultEnd(start, end)) THEN Midnight(DefaultEnd(start, end))
    ELSE DefaultEnd(start, end)

\* lines 35-40: end after the two date conversions
WindowEnd(start, end) ==
    IF DefaultEnd(start, end) = None THEN None ELSE DateEnd(DefaultEnd(start, end))

\* variant: end is computed from the start already shifted
PointWindowShifted(start) ==
    [start |-> PlusSeconds(start, -1), end |-> PlusSeconds(PlusSeconds(start, -1), 1)]

\* lines 42-46: end is computed first, from the start not yet shifted
PointWindow(start) ==
    [start |-> PlusSeconds(start, -1), end |-> PlusSeconds(start, 1)]

\* lines 26-46 of get_conflicts: the window passed to cal.search, or the
\* ValueError for an event without start
SearchWindow(event) ==
    LET start == DictGet(event, "dtstart", None)
        end   == DictGet(event, "dtend", None)
    IN  IF start = None THEN Raise("ValueError")
        ELSE LET s1 == WindowStart(start)
                 e1 == WindowEnd(start, end)
             IN  IF e1 = None THEN PointWindow(s1)
                 ELSE [start |-> s1, end |-> e1]

\* the instant of a stored DTSTART/DTEND value
Instant(v) == IF IsDateTime(v) THEN v.t ELSE v.day * DaySecs

\* cal.search(start, end, event=True) on the CalDAV server: the time-range
\* test of a stored VEVENT against the window [ws, we)
Overlaps(stored, ws, we) ==
    LET s == Instant(stored.dtstart)
    IN  IF "dtend" \in DOMAIN stored
        THEN ws < Instant(stored.dtend) /\ we > s
        ELSE IF "duration" \in DOMAIN stored
             THEN ws < s + stored.duration.secs /\ we > s
             ELSE IF IsDateTime(stored.dtstart)
                  THEN ws <= s /\ we > s
                  ELSE ws < s + DaySecs /\ we > s

RECURSIVE Search(_, _)
Search(cal, window) ==
    IF cal = << >> THEN << >>
    ELSE IF Overlaps(Head(cal), window.start.t, window.end.t)
         THEN <<Head(cal)>> \o Search(Tail(cal), window)
         ELSE Search(Tail(cal), window)

\* EventSummary.from_event(event, num_conflicts)
EventSummary(event, num_conflicts) ==
    [start |-> DictGet(event, "dtstart", None),
     end |-> DictGet(event, "dtend", None),
     name |-> DictGet(event, "summary", None),
     num_conflicts |-> num_conflicts]

\* the three CalDAV settings save_events needs
HasCaldavLogin(config) ==
    /\ Truthy(chained_get(config, <<"calendar", "caldav", "calendar_url">>, None))
    /\ Truthy(chained_get(config, <<"calendar", "caldav", "username">>, None))
    /\ Truthy(chained_get(config, <<"calendar", "caldav", "password_cmd">>, None))

\* summary.py, send_report lines 136-142: the SMTP settings it needs
HasSmtpLogin(config) ==
    /\ Truthy(chained_get(config, <<"report", "smtp", "server">>, None))
    /\ Truthy(chained_get(config, <<"report", "smtp", "username">>, None))
    /\ Truthy(chained_get(config, <<"report", "smtp", "password_cmd">>, None))
    /\ Truthy(chained_get(config, <<"report", "smtp", "to_address">>, None))

----------------------------------------------------------------------------
(* Inputs: configurations *)

BaseConfig ==
    [extractor |-> [command |-> Str(<<"kitinerary-extractor">>)],
     mailbox   |-> [maildir |-> Str(<<"~/Mail">>)],
     calendar  |-> [caldav |-> [calendar_url |-> Str(<<"https://dav/cal">>),
                                username     |-> Str(<<"me">>),
                                password_cmd |-> Str(<<"pass show dav">>)]]]

Hours(n) == [h |-> n, m |-> 0, s |-> 0]

\* header copying, global and flight-scoped augmentation
FullConfig ==
    BaseConfig @@
    [preprocess  |-> [headers |-> ("X-Original-From" :> "From")],
     postprocess |-> [attendees |-> <<Str(<<"me@example.org">>)>>,
                      default_duration |-> Hours(1),
                      categories |-> <<"Travel">>,
                      alarms |-> <<Hours(1)>>,
                      FlightReservation |-> [alarms |-> <<Hours(3), Hours(24)>>]]]

\* no calendar.caldav section
NoCaldavConfig == [k \in DOMAIN BaseConfig \ {"calendar"} |-> BaseConfig[k]]

\* no extractor.command
NoExtractorConfig == [k \in DOMAIN BaseConfig \ {"extractor"} |-> BaseConfig[k]]

\* no mailbox.maildir and no mailbox.mbox
NoMailboxConfig == [BaseConfig EXCEPT !.mailbox = EmptyDict]

\* with the SMTP settings of the report
ReportConfig ==
    BaseConfig @@
    [report |-> [smtp |-> [server       |-> Str(<<"smtp.example.org">>),
                           port         |-> Str(<<"465">>),
                           username     |-> Str(<<"me">>),
                           password_cmd |-> Str(<<"pass show smtp">>),
                           to_address   |-> Str(<<"me@example.org">>)]]]

\* an alarm lead time that is not HH:MM:SS: augment_event raises
\* mailbox.delete_processed_emails = true
DeleteConfig == [BaseConfig EXCEPT !.mailbox = @ @@ [delete_processed_emails |-> Bool(TRUE)]]

\* the same with the report section
DeleteReportConfig == [ReportConfig EXCEPT !.mailbox = @ @@ [delete_processed_emails |-> Bool(TRUE)]]

BadAlarmConfig == BaseConfig @@ [postprocess |-> [alarms |-> <<[bad |-> TRUE]>>]]

Configs ==
    {BaseConfig, FullConfig, NoCaldavConfig, NoExtractorConfig, NoMailboxConfig, ReportConfig}

----------------------------------------------------------------------------
(* Inputs: reservations and emails *)

\* an ISO-8601 string naming the instant t seconds with UTC offset tz
Iso(t, tz) == [j |-> "str", t |-> t, tz |-> tz]

\* {"@value": ..., "timezone": zone}
Zoned(t, zone) == [j |-> "dict", value |-> Iso(t, "+01:00"), timezone |-> zone]

ConcertRes ==
    [type |-> "EventReservation",
     reservationFor |-> [name |-> Str(<<"Concert">>),
                         startDate |-> Iso(3600, "UTC"), endDate |-> Iso(7200, "UTC")]]

\* a start and no end
DoorsRes ==
    [type |-> "EventReservation",
     reservationFor |-> [name |-> Str(<<"Doors">>), startDate |-> Iso(3600, "UTC")]]

\* the same start, no end either, another name
SoundcheckRes ==
    [type |-> "EventReservation",
     reservationFor |-> [name |-> Str(<<"Soundcheck">>), startDate |-> Iso(3600, "UTC")]]

\* a name and no date: the event has no start
NoDateRes ==
    [type |-> "EventReservation", reservationFor |-> [name |-> Str(<<"Voucher">>)]]

\* no name: the event has no summary
NoNameRes ==
    [type |-> "EventReservation",
     reservationFor |-> [startDate |-> Iso(10800, "UTC")]]

FlightRes ==
    [type |-> "FlightReservation",
     reservationNumber |-> Str(<<"XYZ">>),
     reservationFor |-> [departureTime |-> Zoned(36000, "Europe/London"),
                         arrivalTime |-> Zoned(50400, "America/New_York"),
                         flightNumber |-> Str(<<"123">>),
                         airline |-> [iataCode |-> Str(<<"BA">>)],
                         departureAirport |-> [name |-> Str(<<"Heathrow">>),
                                               iataCode |-> Str(<<"LHR">>)],
                         arrivalAirport |-> [iataCode |-> Str(<<"JFK">>)]]]

\* only a departure day: a bare date start and no end
FlightDayRes ==
    [type |-> "FlightReservation",
     reservationFor |-> [departureDay |-> [j |-> "str", day |-> 1],
                         flightNumber |-> Str(<<"456">>)]]

\* no start at all: rejected by the converter
FlightNoStartRes ==
    [type |-> "FlightReservation",
     reservationFor |-> [flightNumber |-> Str(<<"789">>)]]

\* no flightNumber: the converter raises
FlightNoNumberRes ==
    [type |-> "FlightReservation",
     reservationFor |-> [departureTime |-> Iso(36000, "UTC")]]

LodgingRes ==
    [type |-> "LodgingReservation",
     checkinTime |-> Iso(50400, "UTC"), checkoutTime |-> Iso(129600, "UTC"),
     reservationFor |-> [name |-> Str(<<"Hotel">>)]]

\* no checkinTime: rejected by the converter
LodgingNoCheckinRes ==
    [type |-> "LodgingReservation",
     reservationFor |-> [name |-> Str(<<"Hostel">>)]]

\* not a reservation
PlaceThing == [type |-> "Place", name |-> Str(<<"Airport">>)]

PlainHeaders == {"Date", "From", "Subject"}

Extracted(things) == [returncode |-> 0, json |-> TRUE, things |-> things]

Emails ==
    { [subject |-> "fail", headers |-> PlainHeaders,
       out |-> [returncode |-> 1, json |-> FALSE, things |-> << >>]],
      [subject |-> "garbage", headers |-> PlainHeaders,
       out |-> [returncode |-> 0, json |-> FALSE, things |-> << >>]],
      [subject |-> "newsletter", headers |-> PlainHeaders, out |-> Extracted(<< >>)],
      [subject |-> "concert", headers |-> PlainHeaders \cup {"X-Original-From"},
       out |-> Extracted(<<ConcertRes, SoundcheckRes>>)],
      [subject |-> "mixed", headers |-> PlainHeaders,
       out |-> Extracted(<<FlightNoStartRes, ConcertRes, NoNameRes, NoDateRes, DoorsRes>>)],
      [subject |-> "trip", headers |-> PlainHeaders,
       out |-> Extracted(<<FlightRes, PlaceThing, LodgingNoCheckinRes, FlightDayRes>>)],
      [subject |-> "broken", headers |-> PlainHeaders,
       out |-> Extracted(<<DoorsRes, FlightNoNumberRes>>)],
      [subject |-> "forwarded", headers |-> {"Date", "Subject", "X-Original-From"},
       out |-> Extracted(<<LodgingRes>>)] }

\* all sequences over S of length at most n
SeqsUpTo(S, n) == UNION {[1..k -> S] : k \in 0..n}

----------------------------------------------------------------------------
(* Inputs: events handed directly to save_events, and the remote calendar *)

Event(summary, props) == ("component" :> "VEVENT") @@ props @@ [summary |-> Str(<<summary>>)]

\* the values a DTSTART may have, and those a DTEND may have
PoolStarts == {Date(0), Date(1), DateTime(3600, "UTC")}

PoolEnds == {Date(0), Date(1), DateTime(7200, "UTC")}

EventPool ==
    {Event("no-end", [dtstart |-> s]) : s \in PoolStarts}
    \cup {Event("both", [dtstart |-> s, dtend |-> e]) : s \in PoolStarts, e \in PoolEnds}
    \cup {[component |-> "VEVENT", summary |-> Str(<<"no-start">>)]}

\* states of the remote calendar before the run
RemoteStates ==
    { << >>,
      << Event("busy", [dtstart |-> DateTime(3000, "UTC"), dtend |-> DateTime(4000, "UTC")]) >>,
      << Event("holiday", [dtstart |-> Date(1)]),
         Event("lunch", [dtstart |-> DateTime(126000, "UTC")]) >> }

----------------------------------------------------------------------------
(* Inputs: arguments of the functions called on their own *)

\* the dict {k: v} when present, {} otherwise
Opt(k, present, v) == IF present THEN (k :> v) ELSE EmptyDict

\* a reservation with any of the eight time fields get_times looks at, each
\* with a value of its own
TimesRes(st, sd, fst, fsd, et, ed, fet, fed) ==
    Opt("startTime", st, Iso(100, "UTC")) @@ Opt("startDate", sd, Iso(200, "UTC"))
    @@ Opt("endTime", et, Iso(500, "UTC")) @@ Opt("endDate", ed, Iso(600, "UTC"))
    @@ [type |-> "EventReservation",
        reservationFor |->
            Opt("startTime", fst, Iso(300, "UTC")) @@ Opt("startDate", fsd, Iso(400, "UTC"))
            @@ Opt("endTime", fet, Iso(700, "UTC")) @@ Opt("endDate", fed, Iso(800, "UTC"))
            @@ [name |-> Str(<<"Show">>)]]

TimesInputs ==
    {TimesRes(st, sd, fst, fsd, et, ed, fet, fed) :
        st \in BOOLEAN, sd \in BOOLEAN, fst \in BOOLEAN, fsd \in BOOLEAN,
        et \in BOOLEAN, ed \in BOOLEAN, fet \in BOOLEAN, fed \in BOOLEAN}

\* a flight with a departure time and any of airline code, flight number,
\* departure airport name/code, arrival airport name/code
FlightWith(a, n, dn, dc, an, ac) ==
    [type |-> "FlightReservation",
     reservationFor |->
        Opt("airline", a, [iataCode |-> Str(<<"BA">>)])
        @@ Opt("flightNumber", n, Str(<<"123">>))
        @@ Opt("departureAirport", dn \/ dc,
               Opt("name", dn, Str(<<"Heathrow">>)) @@ Opt("iataCode", dc, Str(<<"LHR">>)))
        @@ Opt("arrivalAirport", an \/ ac,
               Opt("name", an, Str(<<"Kennedy">>)) @@ Opt("iataCode", ac, Str(<<"JFK">>)))
        @@ [departureTime |-> Iso(36000, "UTC")]]

FlightInputs ==
    {FlightWith(a, n, dn, dc, an, ac) :
        a \in BOOLEAN, n \in BOOLEAN, dn \in BOOLEAN, dc \in BOOLEAN,
        an \in BOOLEAN, ac \in BOOLEAN}

\* the entries of potentialAction: two of the same type, one whose stem
\* ends in letters of "Action", one without target
ActionPool ==
    {[type |-> Str(<<"C", "a", "n", "c", "e", "l", "A", "c", "t", "i", "o", "n">>),
      target |-> Str(<<"https://example.org/cancel">>)],
     [type |-> Str(<<"C", "a", "n", "c", "e", "l", "A", "c", "t", "i", "o", "n">>),
      target |-> Str(<<"https://example.org/refund">>)],
     [type |-> Str(<<"J", "o", "i", "n", "A", "c", "t", "i", "o", "n">>),
      target |-> Str(<<"https://example.org/join">>)],
     [type |-> Str(<<"V", "i", "e", "w", "A", "c", "t", "i", "o", "n">>)]}

\* number of entries of potentialAction
MaxActions == 2

\* a reservation with a list of actions, with or without reservation number
ActionRes(n, potentialAction) ==
    Opt("reservationNumber", n, Str(<<"R1">>))
    @@ [type |-> "EventReservation",
        reservationFor |-> [name |-> Str(<<"Tour">>), startDate |-> Iso(3600, "UTC")],
        potentialAction |-> potentialAction]

ActionInputs ==
    {ActionRes(n, a) : n \in BOOLEAN, a \in SeqsUpTo(ActionPool, MaxActions)}

\* the reservations handed to a converter
ConverterInputs ==
    FlightInputs \cup ActionInputs
    \cup {ConcertRes, DoorsRes, NoDateRes, NoNameRes, FlightRes, FlightDayRes,
          FlightNoStartRes, LodgingRes, LodgingNoCheckinRes}

Minutes(n) == [h |-> 0, m |-> n, s |-> 0]

\* a string that is not HH:MM:SS
BadDuration == [bad |-> TRUE]

\* the options of one section of postprocess
AugSection(att, dur, cats, alarms) ==
    Opt("attendees", att, <<Str(<<"me@example.org">>), Str(<<"you@example.org">>)>>)
    @@ Opt("default_duration", dur, Hours(2))
    @@ Opt("categories", cats, <<"Work", "Travel">>)
    @@ Opt("alarms", alarms, <<Hours(3), Minutes(15)>>)

\* every option given globally and, with another value, for flights
ScopedConfig ==
    [postprocess |-> [attendees |-> <<Str(<<"all@example.org">>)>>,
                      default_duration |-> Hours(1),
                      categories |-> <<"Travel">>,
                      alarms |-> <<Hours(1)>>,
                      FlightReservation |-> AugSection(TRUE, TRUE, TRUE, TRUE)]]

\* the options given globally or for flights only, and configurations with
\* both, with a single category, and with durations that do not parse
AugConfigs ==
    {[postprocess |-> AugSection(att, dur, cats, alarms)] :
        att \in BOOLEAN, dur \in BOOLEAN, cats \in BOOLEAN, alarms \in BOOLEAN}
    \cup {[postprocess |-> [FlightReservation |-> AugSection(att, dur, cats, alarms)]] :
            att \in BOOLEAN, dur \in BOOLEAN, cats \in BOOLEAN, alarms \in BOOLEAN}
    \cup {FullConfig, BaseConfig, ScopedConfig,
          [postprocess |-> [categories |-> <<"Work">>]],
          [postprocess |-> [alarms |-> <<Hours(1)>>,
                            FlightReservation |-> [alarms |-> << >>]]],
          [postprocess |-> [alarms |-> <<BadDuration>>]],
          [postprocess |-> [default_duration |-> BadDuration]]}

\* events handed to augment_event: with and without end, with and without
\* categories and alarms of their own, with a duration of its own
AugEvents ==
    {Event("talk", [dtstart |-> DateTime(3600, "UTC")]),
     Event("talk", [dtstart |-> DateTime(3600, "UTC"), dtend |-> DateTime(7200, "UTC")]),
     Event("talk", [dtstart |-> Date(1), categories |-> <<"Work">>]),
     Event("talk", [dtstart |-> Date(1), categories |-> <<"Home", "Travel", "Work">>]),
     Event("talk", [dtstart |-> Date(1), categories |-> <<"work">>,
                    alarms |-> <<[action |-> "audio", trigger |-> -60]>>]),
     Event("talk", [dtstart |-> DateTime(3600, "UTC"),
                    duration |-> [kind |-> "timedelta", secs |-> 1800]])}

\* {"@value": ...} without timezone
Unzoned(t) == [j |-> "dict", value |-> Iso(t, "+01:00")]

\* the values handed to parse_datetime: a str, a dict with and without
\* timezone, and a value that is neither
DateValues ==
    {Iso(100, "UTC"), Iso(200, "+01:00"), Zoned(300, "Europe/London"),
     Zoned(400, "America/New_York"), Unzoned(500), [j |-> "int"]}

\* the options read by augment_event
OptionKeys == {"attendees", "default_duration", "categories", "alarms"}

\* the default handed to get_res_conf_option
SomeDefault == Str(<<"default">>)

\* number of events in a list handed to the deduplication
MaxDedupe == 3

DedupePool ==
    {Event("a", [dtstart |-> DateTime(3600, "UTC")]),
     Event("b", [dtstart |-> DateTime(3600, "UTC")]),
     Event("c", [dtstart |-> DateTime(3600, "UTC"), dtend |-> DateTime(7200, "UTC")]),
     Event("d", [dtstart |-> Date(1)])}

\* the calls: the function and its arguments
Calls ==
    {[fn |-> "get_times", reservation |-> r] : r \in TimesInputs}
    \cup {[fn |-> "converter", reservation |-> r] : r \in ConverterInputs}
    \cup {[fn |-> "reservation_to_ical_event", reservation |-> r, config |-> c] :
            r \in {DoorsRes, ConcertRes, FlightRes, FlightDayRes, LodgingRes, NoDateRes,
                   FlightNoStartRes}, c \in AugConfigs}
    \cup {[fn |-> "augment_event", event |-> e, config |-> c, reservation_type |-> t] :
            e \in AugEvents, c \in AugConfigs,
            t \in {"FlightReservation", "EventReservation"}}
    \cup {[fn |-> "dedupe", events |-> x] : x \in SeqsUpTo(DedupePool, MaxDedupe)}
    \cup {[fn |-> "parse_datetime", dt_data |-> v] : v \in DateValues}
    \cup {[fn |-> "get_res_conf_option", config |-> c, key |-> k, res_type |-> t,
           default |-> d] :
            c \in AugConfigs, k \in OptionKeys,
            t \in {"FlightReservation", "EventReservation"}, d \in {None, SomeDefault}}

----------------------------------------------------------------------------
(* State *)

VARIABLES
    config,       \* the configuration dict
    test,         \* ns.test
    emails,       \* the mailbox, as the sequence its iteration yields
    pc,           \* where the run is
    i,            \* number of emails the for loop of process_emails has taken
    summary,      \* Summary: checked, extracted, errors, conflicts
    events,       \* process_emails: events
    added_times,  \* process_emails: added_times
    results,      \* what process_email did for each email tried, in order
    upl,          \* the list of events save_events was called with
    u,            \* number of events the for loop of add_events_to_cal has handled
    added,        \* add_events_to_cal: added
    remote,       \* the events stored in the remote calendar
    remote0,      \* the remote calendar before the run
    queries,      \* the windows sent to cal.search, in order
    oplog,        \* add_events_to_cal: the commits made and the waits taken, in order
    reported,     \* send_report has delivered the report
    cleared,      \* mb.clear() has deleted every email of the mailbox
    error,        \* the exception that ended the run, or None
    run,          \* 1, or 2 when the uploader is run again on the same list
    call,         \* the function entered, with its arguments when it is a pure one
    ret           \* what the pure function called returned or raised, None before

vars == <<config, test, emails, pc, i, summary, events, added_times, results,
          upl, u, added, remote, remote0, queries, oplog, reported, cleared, error,
          run, call, ret>>

envVars == <<run, call, ret>>

NewSummary == [checked |-> << >>, extracted |-> << >>, errors |-> << >>, conflicts |-> << >>]

procVars == <<i, summary, events, added_times, results>>
calVars  == <<upl, u, added, remote, queries, oplog>>
mailVars == <<reported, cleared>>

\* an exception leaves the function named by where and is not caught below main
Fatal(exc, where) ==
    /\ pc' = "fatal"
    /\ error' = [exc |-> exc, where |-> where]

----------------------------------------------------------------------------
(* main.py *)

\* lines 60-62: get_mailbox(config), Summary(...), then process_emails
MainStart ==
    /\ pc = "main"
    /\ IF "mailbox" \notin DOMAIN config
       THEN Fatal("KeyError", "get_mailbox")
       ELSE IF ~("maildir" \in DOMAIN config.mailbox \/ "mbox" \in DOMAIN config.mailbox)
            THEN Fatal("ValueError", "get_mailbox")
            ELSE pc' = "loop" /\ error' = error
    /\ UNCHANGED <<envVars, mailVars, config, test, emails, remote0, procVars, calVars>>

\* lines 63-66: the test branch prints the calendar, the other one uploads
MainAfterProcess ==
    /\ pc = "processed"
    /\ IF test
       THEN pc' = "done" /\ upl' = upl
       ELSE pc' = "save_events" /\ upl' = events
    /\ UNCHANGED <<envVars, mailVars, config, test, emails, remote0, procVars, u, added, remote, queries,
                   oplog, error>>

\* lines 67-68: the report is sent when the summary has anything in it;
\* send_report raises without SMTP settings, when the password command
\* exits non-zero and when the SMTP server refuses
MainReport ==
    /\ pc = "saved"
    /\ call.fn = "main"
    /\ \E returncode \in {0, 1}, sent \in BOOLEAN :
          IF summary.extracted = << >> /\ summary.conflicts = << >> /\ summary.errors = << >>
          THEN pc' = "reported" /\ error' = error /\ reported' = reported
          ELSE IF ~HasSmtpLogin(config) THEN Fatal("ValueError", "send_report") /\ reported' = reported
          ELSE IF returncode # 0 THEN Fatal("SystemError", "send_report") /\ reported' = reported
          ELSE IF ~sent THEN Fatal("SMTPException", "send_report") /\ reported' = reported
          ELSE pc' = "reported" /\ error' = error /\ reported' = TRUE
    /\ UNCHANGED <<envVars, config, test, emails, remote0, procVars, calVars, cleared>>

\* line 69: the option that asks for the mailbox to be emptied
DeleteRequestedByDefault(conf) ==
    Truthy(chained_get(conf, <<"mailbox", "delete_processed_emails">>, Bool(TRUE)))

DeleteRequested(conf) ==
    Truthy(chained_get(conf, <<"mailbox", "delete_processed_emails">>, Bool(FALSE)))

\* lines 69-73: after the report, mb.lock(), mb.clear(), mb.close() when the
\* option is set; mb.lock() raises when the mailbox is locked by another
MainDelete ==
    /\ pc = "reported"
    /\ call.fn = "main"
    /\ \E locked \in BOOLEAN :
          IF ~DeleteRequested(config)
          THEN pc' = "done" /\ error' = error /\ cleared' = cleared
          ELSE IF locked THEN Fatal("ExternalClashError", "mb.lock") /\ cleared' = cleared
          ELSE pc' = "done" /\ error' = error /\ cleared' = TRUE
    /\ UNCHANGED <<envVars, config, test, emails, remote0, procVars, calVars, reported>>

----------------------------------------------------------------------------
(* process.py: process_emails *)

\* lines 81-84: the next email is summarised, recorded as checked and
\* preprocessed, outside the try
NextEmail ==
    /\ pc = "loop"
    /\ i < Len(emails)
    /\ i' = i + 1
    /\ summary' = [summary EXCEPT !.checked = Append(@, EmailSummary(emails[i + 1]))]
    /\ IF preprocess_raises(emails[i + 1], config)
       THEN Fatal("KeyError", "process_emails")
       ELSE pc' = "try" /\ error' = error
    /\ UNCHANGED <<envVars, mailVars, config, test, emails, remote0, events, added_times, results, calVars>>

\* variant: the email that failed falls through to the summary of extractions
RecordErrorFallingThrough(msg) ==
    /\ summary' = [summary EXCEPT !.errors = Append(@, EmailSummary(msg)),
                                  !.extracted = Append(@, EventEmailSummary(msg, 0, 0))]
    /\ UNCHANGED <<events, added_times>>

\* line 88: the email goes to summary.errors
RecordError(msg) ==
    /\ summary' = [summary EXCEPT !.errors = Append(@, EmailSummary(msg))]
    /\ UNCHANGED <<events, added_times>>

\* lines 90-108: acc is [events, added_times, uniques] after the loop over
\* new_events; an email with events goes to summary.extracted
RecordEvents(msg, new_events, acc) ==
    /\ events' = acc.events
    /\ added_times' = acc.added_times
    /\ summary' = IF new_events # << >>
                  THEN [summary EXCEPT !.extracted =
                          Append(@, EventEmailSummary(msg, Len(new_events), acc.uniques))]
                  ELSE summary

\* lines 85-108 on r, what process_email did
Handle(msg, r) ==
    /\ results' = Append(results, r)
    /\ IF r.raised
       THEN RecordError(msg)
       ELSE RecordEvents(msg, r.events,
                         AddUnique(r.events, [events |-> events,
                                              added_times |-> added_times,
                                              uniques |-> 0]))

\* lines 85-108: try process_email; on an exception record the email as an
\* error and continue; else add the events with a new time key
TryEmail ==
    /\ pc = "try"
    /\ Handle(emails[i], process_email(emails[i], config))
    /\ pc' = "loop"
    /\ UNCHANGED <<envVars, mailVars, config, test, emails, remote0, i, calVars, error>>

\* lines 109-111: the loop is over, events is returned
ProcessReturn ==
    /\ pc = "loop"
    /\ i = Len(emails)
    /\ pc' = "processed"
    /\ UNCHANGED <<envVars, mailVars, config, test, emails, remote0, procVars, calVars, error>>

----------------------------------------------------------------------------
(* cal_utils.py: save_events, add_events_to_cal *)

\* lines 81-92: the login details, the password command (its return code is
\* the environment's), then add_events_to_cal starts with added = []
SaveEvents ==
    /\ pc = "save_events"
    /\ \E returncode \in {0, 1} :
          IF ~HasCaldavLogin(config)
          THEN Fatal("ValueError", "save_events")
          ELSE IF returncode # 0
               THEN Fatal("SystemError", "save_events")
               ELSE pc' = "upload" /\ error' = error
    /\ u' = 0
    /\ added' = << >>
    /\ UNCHANGED <<envVars, mailVars, config, test, emails, remote0, procVars, upl, remote, queries,
                   oplog>>

\* variant: a failed commit undoes the commits made before it
CommitEventRollback(e, saveOk) ==
    IF saveOk
    THEN /\ remote' = Append(remote, e)
         /\ added' = Append(added, e)
         /\ oplog' = oplog \o <<"commit", "sleep">>
         /\ u' = u + 1
         /\ UNCHANGED <<pc, error, summary>>
    ELSE /\ Fatal("DAVError", "save_event")
         /\ remote' = remote0
         /\ UNCHANGED <<u, added, oplog, summary>>

\* variant: the wait is taken only when the event was not committed
CommitEventUnpaced(e, saveOk) ==
    IF saveOk
    THEN /\ remote' = Append(remote, e)
         /\ added' = Append(added, e)
         /\ oplog' = Append(oplog, "commit")
         /\ u' = u + 1
         /\ UNCHANGED <<pc, error, summary>>
    ELSE /\ Fatal("DAVError", "save_event")
         /\ UNCHANGED <<u, added, remote, oplog, summary>>

\* lines 62-65 and 70: cal.save_event, which may fail, then added.append(e)
\* and time.sleep(1)
CommitEvent(e, saveOk) ==
    IF saveOk
    THEN /\ remote' = Append(remote, e)
         /\ added' = Append(added, e)
         /\ oplog' = oplog \o <<"commit", "sleep">>
         /\ u' = u + 1
         /\ UNCHANGED <<pc, error, summary>>
    ELSE /\ Fatal("DAVError", "save_event")
         /\ UNCHANGED <<u, added, remote, oplog, summary>>

\* variant: the conflicting event is committed all the same
RecordConflictSaving(e, conflicts) ==
    /\ summary' = [summary EXCEPT !.conflicts = Append(@, EventSummary(e, Len(conflicts)))]
    /\ remote' = Append(remote, e)
    /\ oplog' = oplog \o <<"commit", "sleep">>
    /\ u' = u + 1
    /\ UNCHANGED <<pc, error, added>>

\* lines 67-70: the event and the number of its conflicts go to the summary,
\* then time.sleep(1)
RecordConflict(e, conflicts) ==
    /\ summary' = [summary EXCEPT !.conflicts = Append(@, EventSummary(e, Len(conflicts)))]
    /\ oplog' = Append(oplog, "sleep")
    /\ u' = u + 1
    /\ UNCHANGED <<pc, error, added, remote>>

\* variant: the search looks in the calendar as it was before the pass
CheckAndAddStale(e, w, searchOk, saveOk) ==
    /\ queries' = Append(queries, w)
    /\ IF ~searchOk
       THEN /\ Fatal("DAVError", "search")
            /\ UNCHANGED <<u, added, remote, oplog, summary>>
       ELSE IF Search(remote0, w) = << >>
            THEN CommitEvent(e, saveOk)
            ELSE RecordConflict(e, Search(remote0, w))

\* lines 60-69 once the window is known: the search, which may fail, then
\* the commit or the conflict
CheckAndAdd(e, w, searchOk, saveOk) ==
    /\ queries' = Append(queries, w)
    /\ IF ~searchOk
       THEN /\ Fatal("DAVError", "search")
            /\ UNCHANGED <<u, added, remote, oplog, summary>>
       ELSE IF Search(remote, w) = << >>
            THEN CommitEvent(e, saveOk)
            ELSE RecordConflict(e, Search(remote, w))

\* lines 58-70: one iteration of the loop of add_events_to_cal.  Whether the
\* search request and the save request succeed is the environment's
AddEvent(searchOk, saveOk) ==
    /\ pc = "upload"
    /\ u < Len(upl)
    /\ IF IsRaise(SearchWindow(upl[u + 1]))
       THEN /\ Fatal(SearchWindow(upl[u + 1]).exc, "get_conflicts")
            /\ UNCHANGED <<u, added, remote, queries, oplog, summary>>
       ELSE CheckAndAdd(upl[u + 1], SearchWindow(upl[u + 1]), searchOk, saveOk)
    /\ UNCHANGED <<envVars, mailVars, config, test, emails, remote0, i, events, added_times, results, upl>>

AddEventStep == \E searchOk \in BOOLEAN, saveOk \in BOOLEAN : AddEvent(searchOk, saveOk)

\* line 71 and lines 93-95: added is returned to save_events and by it
AddEventsReturn ==
    /\ pc = "upload"
    /\ u = Len(upl)
    /\ pc' = "saved"
    /\ UNCHANGED <<envVars, mailVars, config, test, emails, remote0, procVars, calVars, error>>

\* a function called on its own returns, or raises, and that is all
Return(value) ==
    /\ pc = "call"
    /\ ret' = value
    /\ pc' = "returned"
    /\ UNCHANGED <<config, test, emails, remote0, procVars, calVars, mailVars, error, run, call>>

CallGetTimes ==
    /\ call.fn = "get_times"
    /\ Return(get_times(call.reservation))

\* the converter of the reservation's type, the generic one by default
CallConverter ==
    /\ call.fn = "converter"
    /\ Return(Convert(call.reservation.type, call.reservation))

CallReservationToEvent ==
    /\ call.fn = "reservation_to_ical_event"
    /\ Return(reservation_to_ical_event(call.reservation, call.config))

CallAugmentEvent ==
    /\ call.fn = "augment_event"
    /\ Return(augment_event(call.event, call.config, call.reservation_type))

\* the legacy dedupe_events, and the loop of process_emails on one list
\* with events and added_times empty
CallDedupe ==
    /\ call.fn = "dedupe"
    /\ Return([legacy |-> dedupe_events(call.events),
               current |-> AddUnique(call.events,
                                     [events |-> << >>, added_times |-> {},
                                      uniques |-> 0]).events])

CallParseDatetime ==
    /\ call.fn = "parse_datetime"
    /\ Return(parse_datetime(call.dt_data))

CallGetResConfOption ==
    /\ call.fn = "get_res_conf_option"
    /\ Return(get_res_conf_option(call.config, call.key, call.res_type, call.default))

\* the uploader is run again with the same list, against the calendar the
\* first run left, with a new Summary
Rerun ==
    /\ pc = "saved"
    /\ call.fn = "save_events"
    /\ run = 1
    /\ run' = 2
    /\ pc' = "save_events"
    /\ remote0' = remote
    /\ queries' = << >>
    /\ oplog' = << >>
    /\ summary' = NewSummary
    /\ u' = 0
    /\ added' = << >>
    /\ UNCHANGED <<config, test, emails, i, events, added_times, results, upl, remote,
                   mailVars, error, call, ret>>

----------------------------------------------------------------------------
(* Specifications *)

\* a run of main on a mailbox of at most MaxEmails emails
Init ==
    /\ config \in Configs
    /\ test \in BOOLEAN
    /\ emails \in SeqsUpTo(Emails, MaxEmails)
    /\ remote0 \in RemoteStates
    /\ remote = remote0
    /\ pc = "main"
    /\ i = 0
    /\ summary = NewSummary
    /\ events = << >>
    /\ added_times = {}
    /\ results = << >>
    /\ upl = << >>
    /\ u = 0
    /\ added = << >>
    /\ queries = << >>
    /\ oplog = << >>
    /\ reported = FALSE
    /\ cleared = FALSE
    /\ error = None
    /\ run = 1
    /\ call = [fn |-> "main"]
    /\ ret = None

Next ==
    \/ MainStart
    \/ NextEmail
    \/ TryEmail
    \/ ProcessReturn
    \/ MainAfterProcess
    \/ SaveEvents
    \/ AddEventStep
    \/ AddEventsReturn
    \/ MainReport
    \/ MainDelete

Spec == Init /\ [][Next]_vars

\* a run of main under the configurations that set mailbox.delete_processed_emails
InitDelete ==
    /\ config \in {BaseConfig, [DeleteConfig EXCEPT !.mailbox.delete_processed_emails = Bool(FALSE)],
                  DeleteConfig, DeleteReportConfig}
    /\ test \in BOOLEAN
    /\ emails \in SeqsUpTo(Emails, MaxEmails)
    /\ remote0 \in RemoteStates
    /\ remote = remote0
    /\ pc = "main"
    /\ i = 0
    /\ summary = NewSummary
    /\ events = << >>
    /\ added_times = {}
    /\ results = << >>
    /\ upl = << >>
    /\ u = 0
    /\ added = << >>
    /\ queries = << >>
    /\ oplog = << >>
    /\ reported = FALSE
    /\ cleared = FALSE
    /\ error = None
    /\ run = 1
    /\ call = [fn |-> "main"]
    /\ ret = None

SpecDelete == InitDelete /\ [][Next]_vars

\* save_events called with any list of at most MaxEvents events and a new Summary
InitCal ==
    /\ config \in {BaseConfig, NoCaldavConfig}
    /\ test = FALSE
    /\ emails = << >>
    /\ remote0 \in RemoteStates
    /\ remote = remote0
    /\ pc = "save_events"
    /\ i = 0
    /\ summary = NewSummary
    /\ events = << >>
    /\ added_times = {}
    /\ results = << >>
    /\ upl \in SeqsUpTo(EventPool, MaxEvents)
    /\ u = 0
    /\ added = << >>
    /\ queries = << >>
    /\ oplog = << >>
    /\ reported = FALSE
    /\ cleared = FALSE
    /\ error = None
    /\ run = 1
    /\ call = [fn |-> "save_events"]
    /\ ret = None

NextCal ==
    \/ SaveEvents
    \/ AddEventStep
    \/ AddEventsReturn

SpecCal == InitCal /\ [][NextCal]_vars

\* save_events called twice with the same list
NextRerun ==
    \/ SaveEvents
    \/ AddEventStep
    \/ AddEventsReturn
    \/ Rerun

SpecRerun == InitCal /\ [][NextRerun]_vars

\* process_emails called, with a new Summary, on a mailbox of at most
\* MaxEmails emails
InitProc ==
    /\ config \in {BaseConfig, FullConfig, BadAlarmConfig}
    /\ test = FALSE
    /\ emails \in SeqsUpTo(Emails, MaxEmails)
    /\ remote0 = << >>
    /\ remote = << >>
    /\ pc = "loop"
    /\ i = 0
    /\ summary = NewSummary
    /\ events = << >>
    /\ added_times = {}
    /\ results = << >>
    /\ upl = << >>
    /\ u = 0
    /\ added = << >>
    /\ queries = << >>
    /\ oplog = << >>
    /\ reported = FALSE
    /\ cleared = FALSE
    /\ error = None
    /\ run = 1
    /\ call = [fn |-> "process_emails"]
    /\ ret = None

NextProc ==
    \/ NextEmail
    \/ TryEmail
    \/ ProcessReturn

SpecProc == InitProc /\ [][NextProc]_vars

\* one call of a function on its own
InitFn ==
    /\ call \in Calls
    /\ pc = "call"
    /\ ret = None
    /\ config = BaseConfig
    /\ test = FALSE
    /\ emails = << >>
    /\ remote0 = << >>
    /\ remote = << >>
    /\ i = 0
    /\ summary = NewSummary
    /\ events = << >>
    /\ added_times = {}
    /\ results = << >>
    /\ upl = << >>
    /\ u = 0
    /\ added = << >>
    /\ queries = << >>
    /\ oplog = << >>
    /\ reported = FALSE
    /\ cleared = FALSE
    /\ error = None
    /\ run = 1

NextFn ==
    \/ CallGetTimes
    \/ CallConverter
    \/ CallReservationToEvent
    \/ CallAugmentEvent
    \/ CallDedupe
    \/ CallParseDatetime
    \/ CallGetResConfOption

SpecFn == InitFn /\ [][NextFn]_vars

\* either entry point
SpecAll == (Init \/ InitCal) /\ [][Next]_vars

----------------------------------------------------------------------------
(* Properties *)

\* the elements of seq at the indices k..Len(seq) that are in A, in order
RECURSIVE Pick(_, _, _)
Pick(seq, A, k) ==
    IF k > Len(seq) THEN << >>
    ELSE (IF k \in A THEN <<seq[k]>> ELSE << >>) \o Pick(seq, A, k + 1)

HasStart(e) == "dtstart" \in DOMAIN e
HasEnd(e) == "dtend" \in DOMAIN e

\* the remote calendar when the k-th event is checked, A being the positions
\* of the events committed
RemoteBefore(A, k) == remote0 \o Pick(upl, A \cap (1..(k - 1)), 1)

\* what the search for the k-th event returns then
FoundFor(A, k) == Search(RemoteBefore(A, k), SearchWindow(upl[k]))

\* A is the set of positions of the committed events: they had no conflict
\* and make up added in order; the others had conflicts and make up the
\* conflicts recorded, in order, each with its number of conflicts
C1_Outcomes(A) ==
    /\ \A k \in 1..u : (k \in A) <=> (FoundFor(A, k) = << >>)
    /\ added = Pick(upl, A, 1)
    /\ remote = remote0 \o added
    /\ summary.conflicts =
         Pick([k \in 1..u |-> EventSummary(upl[k], Len(FoundFor(A, k)))], (1..u) \ A, 1)

\* C1: each of the u events handled so far was either committed and added
\* (no conflict found) or recorded as a conflict with its count and not
\* committed; added is the committed events in input order; and when
\* add_events_to_cal returns, len(added) + len(conflicts) = len(events)
C1_AddedOrConflict ==
    /\ \E A \in SUBSET (1..u) : C1_Outcomes(A)
    /\ Len(added) + Len(summary.conflicts) = u
    /\ pc = "saved" => u = Len(upl)

C1_Witness ==
    /\ pc = "saved"
    /\ Len(upl) = MaxEvents
    /\ added # << >>
    /\ \E n \in 1..Len(summary.conflicts) : summary.conflicts[n].num_conflicts = 2

\* the events process_email returned, over all emails tried, in order
RECURSIVE Discovered(_)
Discovered(rs) ==
    IF rs = << >> THEN << >>
    ELSE (IF Head(rs).raised THEN << >> ELSE Head(rs).events) \o Discovered(Tail(rs))

\* equal start and equal end, an absent end being equal to an absent end
SameTimes(a, b) ==
    /\ DictGet(a, "dtstart", None) = DictGet(b, "dtstart", None)
    /\ DictGet(a, "dtend", None) = DictGet(b, "dtend", None)

\* the positions of seq that no earlier position duplicates
FirstOccurrences(seq) ==
    {n \in 1..Len(seq) : \A m \in 1..(n - 1) : ~SameTimes(seq[m], seq[n])}

\* C2: events has no two entries with equal (start, end), and is the
\* events discovered so far with only the first occurrence of each
\* (start, end) kept, in discovery order; dedupe_events gives the same list
C2_NoDuplicateTimes ==
    /\ \A a, b \in 1..Len(events) : a # b => ~SameTimes(events[a], events[b])
    /\ events = Pick(Discovered(results), FirstOccurrences(Discovered(results)), 1)
    /\ events = dedupe_events(Discovered(results))

\* a later event without end was dropped for an earlier one of another summary
C2_Witness ==
    /\ pc = "processed"
    /\ \E n \in 1..Len(Discovered(results)) : \E m \in 1..(n - 1) :
          /\ SameTimes(Discovered(results)[m], Discovered(results)[n])
          /\ ~HasEnd(Discovered(results)[n])
          /\ Discovered(results)[m].summary # Discovered(results)[n].summary

\* the things of an email that are reservations
ResIdx(email) ==
    {n \in 1..Len(email.out.things) : is_reservation(email.out.things[n])}

\* what the converter and the augmenter make of each reservation of an email
Convs(email) ==
    [n \in 1..Len(email.out.things) |->
        IF n \in ResIdx(email)
        THEN reservation_to_ical_event(email.out.things[n], config)
        ELSE None]

\* the positions where an event came out that has a summary and a start
KeptIdx(cs) ==
    {n \in DOMAIN cs :
        /\ ~IsRaise(cs[n])
        /\ cs[n] # None
        /\ HasStart(cs[n])
        /\ "summary" \in DOMAIN cs[n]}

NoneRaised(cs) == \A n \in DOMAIN cs : ~IsRaise(cs[n])

\* the extractor ran and nothing raised while converting
CleanEmail(email) ==
    /\ ~IsRaise(build_cmd(config))
    /\ email.out.returncode = 0
    /\ email.out.json
    /\ NoneRaised(Convs(email))

ExpectedEvents(cs) == Pick(cs, KeptIdx(cs), 1)

RejectedAndInvalid(email, cs) ==
    /\ \E n \in ResIdx(email) : cs[n] = None
    /\ \E n \in ResIdx(email) : ~IsRaise(cs[n]) /\ cs[n] # None /\ ~HasStart(cs[n])

C4_NeverAborts == ~(pc = "fatal" /\ error.where = "process_emails")

ExtractorFails(email) == email.out.returncode # 0 \/ ~email.out.json

C5_Step ==
    (pc = "try" /\ ExtractorFails(emails[i])) =>
        /\ pc' = "loop"
        /\ error' = None
        /\ summary'.errors = Append(summary.errors, EmailSummary(emails[i]))
        /\ summary'.checked = summary.checked
        /\ summary.checked[i] = EmailSummary(emails[i])
        /\ summary'.extracted = summary.extracted
        /\ events' = events
        /\ i' = i

\* C5: the step that tries an email on which the extractor exits non-zero
\* or prints what is not JSON appends the email to summary.errors, leaves
\* it in summary.checked, appends nothing to summary.extracted and goes
\* back to the loop for the next email
C5_ExtractorFailureRecorded == [][C5_Step]_vars

\* the first email failed in the extractor and the second one was taken
C5_Witness ==
    /\ pc = "try"
    /\ i = 2
    /\ ExtractorFails(emails[1])
    /\ summary.errors = <<EmailSummary(emails[1])>>
    /\ Len(summary.checked) = 2

\* C6: a failure to get the credentials happens before any search or
\* commit, so nothing is committed; a failed commit ends the upload at that
\* event: it was queried once, no later event is queried, and the events
\* committed before it stay in the remote calendar
C6_FatalUpload ==
    /\ remote = remote0 \o added
    /\ Len(queries) <= u + 1
    /\ (pc = "fatal" /\ error.where = "save_events") =>
          /\ queries = << >> /\ added = << >> /\ remote = remote0
          /\ \/ error.exc = "ValueError" /\ ~HasCaldavLogin(config)
             \/ error.exc = "SystemError" /\ HasCaldavLogin(config)
    /\ (pc = "fatal" /\ error.where = "save_event") =>
          /\ u < Len(upl)
          /\ Len(queries) = u + 1
          /\ Len(added) + Len(summary.conflicts) = u
    /\ ~HasCaldavLogin(config) => (pc \notin {"upload", "saved"} /\ queries = << >>)

\* the second commit failed and the first one is still in the calendar
C6_Witness ==
    /\ pc = "fatal"
    /\ error.where = "save_event"
    /\ Len(added) = 1
    /\ remote = Append(remote0, upl[1])

\* C7: a bare date start without end is searched from its midnight to the
\* midnight of the following day
C7_AllDayWindow ==
    \A k \in 1..Len(queries) :
        (HasStart(upl[k]) /\ upl[k].dtstart.kind = "date" /\ ~HasEnd(upl[k])) =>
            /\ queries[k].start = DateTime(upl[k].dtstart.day * DaySecs, "naive")
            /\ queries[k].end = DateTime((upl[k].dtstart.day + 1) * DaySecs, "naive")

C7_Witness ==
    \E k \in 1..Len(queries) :
        /\ HasStart(upl[k]) /\ upl[k].dtstart.kind = "date" /\ ~HasEnd(upl[k])
        /\ upl[k].dtstart.day = 1
        /\ queries[k].end.t - queries[k].start.t = DaySecs

\* C8: a datetime start without end is searched from one second before the
\* start to one second after the start
C8_PointWindow ==
    \A k \in 1..Len(queries) :
        (HasStart(upl[k]) /\ upl[k].dtstart.kind = "datetime" /\ ~HasEnd(upl[k])) =>
            /\ queries[k].start = DateTime(upl[k].dtstart.t - 1, upl[k].dtstart.tz)
            /\ queries[k].end = DateTime(upl[k].dtstart.t + 1, upl[k].dtstart.tz)

C8_Witness ==
    \E k \in 1..Len(queries) :
        /\ HasStart(upl[k]) /\ upl[k].dtstart.kind = "datetime" /\ ~HasEnd(upl[k])
        /\ queries[k].end.t - queries[k].start.t = 2

\* C9: with a bare date start, a bare date end is searched up to the
\* midnight of the day after it, and a datetime end is passed as it is;
\* the search starts at the midnight of the start date
C9_DateEndWindow ==
    \A k \in 1..Len(queries) :
        (HasStart(upl[k]) /\ upl[k].dtstart.kind = "date" /\ HasEnd(upl[k])) =>
            /\ queries[k].start = DateTime(upl[k].dtstart.day * DaySecs, "naive")
            /\ upl[k].dtend.kind = "date" =>
                  queries[k].end = DateTime((upl[k].dtend.day + 1) * DaySecs, "naive")
            /\ upl[k].dtend.kind = "datetime" => queries[k].end = upl[k].dtend

\* a date end and a datetime end were both searched, after a date start
C9_Witness ==
    /\ \E k \in 1..Len(queries) :
          /\ HasStart(upl[k]) /\ upl[k].dtstart.kind = "date"
          /\ HasEnd(upl[k]) /\ upl[k].dtend.kind = "date"
          /\ upl[k].dtend.day # upl[k].dtstart.day
    /\ \E k \in 1..Len(queries) :
          /\ HasStart(upl[k]) /\ upl[k].dtstart.kind = "date"
          /\ HasEnd(upl[k]) /\ upl[k].dtend.kind = "datetime"

\* C10: get_conflicts on an event without start raises ValueError and sends
\* no query for it, so every event handled had a start; the events that
\* process_emails collects all have a start, so a run of main never gets
\* this error
C10_NoStartIsCallerError ==
    /\ \A k \in 1..u : HasStart(upl[k])
    /\ (pc = "upload" /\ u < Len(upl) /\ ~HasStart(upl[u + 1])) => Len(queries) = u
    /\ (pc = "fatal" /\ error.where = "get_conflicts") =>
          /\ error.exc = "ValueError"
          /\ ~HasStart(upl[u + 1])
          /\ Len(queries) = u
          /\ upl # events
    /\ \A k \in 1..Len(events) : HasStart(events[k])

\* the second event had no start: one query was sent, for the first
C10_Witness ==
    /\ pc = "fatal"
    /\ error.where = "get_conflicts"
    /\ u = 1
    /\ Len(queries) = 1

MailboxConfigured(conf) ==
    /\ "mailbox" \in DOMAIN conf
    /\ ("maildir" \in DOMAIN conf.mailbox \/ "mbox" \in DOMAIN conf.mailbox)

\* C12 (as claimed): when the extractor command or the mailbox location is
\* missing, no email is checked, no extraction is attempted and no remote
\* calendar operation happens
C12_FatalAtStartup ==
    (IsRaise(build_cmd(config)) \/ ~MailboxConfigured(config)) =>
        /\ summary.checked = << >>
        /\ results = << >>
        /\ pc \notin {"upload", "saved", "reported", "done"}

\* C13 (as claimed): without SMTP settings the run does not end in the
\* fatal-error exit because of the report
C13_ReportOptional ==
    ~HasSmtpLogin(config) => ~(pc = "fatal" /\ error.where = "send_report")

\* an end, when there is one, is later than the start
WellFormed(e) ==
    HasStart(e) /\ (HasEnd(e) => Instant(e.dtend) > Instant(e.dtstart))

\* C14 (as claimed): the second run of the uploader commits no event
C14_RerunCommitsNothingAtAll == run = 2 => added = << >>

\* C14 (amended): when every event of the list has, if it has an end, an
\* end later than its start, the second run of the uploader on the same
\* list commits no event, leaves the remote calendar as the first run left
\* it and records every event it handles as a conflict
C14_RerunCommitsNothing ==
    (run = 2 /\ \A k \in 1..Len(upl) : WellFormed(upl[k])) =>
        /\ added = << >>
        /\ remote = remote0
        /\ pc \in {"upload", "saved"} => Len(summary.conflicts) = u
        /\ \A n \in 1..Len(summary.conflicts) : summary.conflicts[n].num_conflicts >= 1

InSeq(x, seq) == \E n \in 1..Len(seq) : seq[n] = x

\* the second run is over; the first one had committed an all-day event
\* without end and a timed event without end
C14_Witness ==
    /\ run = 2
    /\ pc = "saved"
    /\ Len(summary.conflicts) = Len(upl)
    /\ \A k \in 1..Len(upl) : WellFormed(upl[k])
    /\ \E k \in 1..Len(upl) :
          ~HasEnd(upl[k]) /\ ~IsDateTime(upl[k].dtstart) /\ InSeq(upl[k], remote0)
    /\ \E k \in 1..Len(upl) :
          ~HasEnd(upl[k]) /\ IsDateTime(upl[k].dtstart) /\ InSeq(upl[k], remote0)

\* the function called on its own has returned
Returned(fn) == pc = "returned" /\ call.fn = fn

\* C11 (as claimed): no converter returns an event without a start; it
\* returns None when it cannot establish one
C11_NoEventWithoutStart ==
    Returned("converter") => (IsRaise(ret) \/ ret = None \/ HasStart(ret))

\* a duration string that parses
Parses(d) == "bad" \notin DOMAIN d

ConfiguredAlarms(conf, t) == get_res_conf_option(conf, "alarms", t, << >>)

ConfiguredCategories(conf, t) == get_res_conf_option(conf, "categories", t, << >>)

\* the default duration and the alarm lead times that apply to type t parse
DurationsParse(conf, t) ==
    /\ get_res_conf_option(conf, "default_duration", t, None) = None
       \/ Parses(get_res_conf_option(conf, "default_duration", t, None))
    /\ \A n \in 1..Len(ConfiguredAlarms(conf, t)) : Parses(ConfiguredAlarms(conf, t)[n])

\* acc followed by the elements of cats that it does not hold yet
RECURSIVE Merge(_, _)
Merge(acc, cats) ==
    IF cats = << >> THEN acc
    ELSE IF InSeq(Head(cats), acc) THEN Merge(acc, Tail(cats))
    ELSE Merge(Append(acc, Head(cats)), Tail(cats))

\* C15 (as claimed): with a non-empty configured category list, the
\* categories after augment_event are those the event had, followed by the
\* configured ones not yet present, in configuration order
C15_CategoriesMerged ==
    (/\ Returned("augment_event")
     /\ ConfiguredCategories(call.config, call.reservation_type) # << >>
     /\ DurationsParse(call.config, call.reservation_type)) =>
        /\ ~IsRaise(ret)
        /\ DictGet(ret, "categories", << >>) =
             Merge(DictGet(call.event, "categories", << >>),
                   ConfiguredCategories(call.config, call.reservation_type))

\* what the converter of its type makes of the reservation called with
Produced == Convert(call.reservation.type, call.reservation)

SameCore(a, b) ==
    \A k \in {"summary", "dtstart", "dtend"} : DictGet(a, k, None) = DictGet(b, k, None)

AugmentedUnchanged ==
    /\ ~IsRaise(ret)
    /\ ret # None
    /\ SameCore(ret, Produced)

TokensOf(d, k) == IF k \in DOMAIN d THEN d[k].s ELSE << >>

\* name alone, code alone, or name (code)
Label(name, code) ==
    IF name # << >> /\ code # << >> THEN name \o <<" (">> \o code \o <<")">>
    ELSE name \o code

AirportLabel(res_for, k) ==
    IF k \in DOMAIN res_for
    THEN Label(TokensOf(res_for[k], "name"), TokensOf(res_for[k], "iataCode"))
    ELSE << >>

Identifier(res_for) ==
    (IF "airline" \in DOMAIN res_for THEN TokensOf(res_for.airline, "iataCode") ELSE << >>)
    \o TokensOf(res_for, "flightNumber")

ClaimedFlightSummary(res_for) ==
    Str(<<"Flight">>
        \o (IF Identifier(res_for) # << >> THEN <<" ">> \o Identifier(res_for) ELSE << >>)
        \o <<": ">>
        \o AirportLabel(res_for, "departureAirport")
        \o <<" to ">>
        \o (IF AirportLabel(res_for, "arrivalAirport") # << >>
            THEN AirportLabel(res_for, "arrivalAirport") ELSE <<"[unknown]">>))

\* C17 (as claimed): for a flight with a start and any combination of
\* airline code, flight number and airport names and codes, the converter
\* returns an event whose summary is Flight, the identifier if not empty,
\* the origin label and the destination label
C17_FlightSummary ==
    (Returned("converter") /\ call.reservation \in FlightInputs) =>
        /\ ~IsRaise(ret)
        /\ ret # None
        /\ ret.summary = ClaimedFlightSummary(call.reservation.reservationFor)

LeadSeconds(d) == d.h * 3600 + d.m * 60 + d.s

DedupeCurrent(x) ==
    AddUnique(x, [events |-> << >>, added_times |-> {}, uniques |-> 0]).events

\* C19: deduplicating a deduplicated list returns it unchanged, for the
\* legacy dedupe_events and for the loop of process_emails
C19_DedupIdempotent ==
    Returned("dedupe") =>
        /\ dedupe_events(ret.legacy) = ret.legacy
        /\ DedupeCurrent(ret.current) = ret.current

\* a list of three from which one duplicate was dropped
C19_Witness ==
    /\ Returned("dedupe")
    /\ Len(call.events) = 3
    /\ Len(ret.legacy) = 2
    /\ Len(ret.current) = 2

\* the first candidate present, parsed; None when there is none
RECURSIVE FirstPresent(_)
FirstPresent(cands) ==
    IF cands = << >> THEN None
    ELSE IF Head(cands) # None THEN parse_datetime(Head(cands))
    ELSE FirstPresent(Tail(cands))

\* own Time, own Date, then reservationFor's Time and Date
ClaimedOrder(r, side) ==
    << DictGet(r, side \o "Time", None), DictGet(r, side \o "Date", None),
       DictGet(r.reservationFor, side \o "Time", None),
       DictGet(r.reservationFor, side \o "Date", None) >>

\* C20 (as claimed): get_times returns, for each side, the first candidate
\* present among the reservation's own Time and Date and then
\* reservationFor's Time and Date
C20_ClaimedOrder ==
    Returned("get_times") =>
        /\ ~IsRaise(ret)
        /\ ret.start = FirstPresent(ClaimedOrder(call.reservation, "start"))
        /\ ret.end = FirstPresent(ClaimedOrder(call.reservation, "end"))

\* the datetime a time value stands for: a str as parsed, a record with a
\* timezone converted to it, a record without timezone as parsed
ClaimedDatetime(v) ==
    IF v.j = "str" THEN DateTime(v.t, v.tz)
    ELSE IF "timezone" \in DOMAIN v THEN DateTime(v.value.t, v.timezone)
    ELSE DateTime(v.value.t, v.value.tz)

\* C21 (as claimed): parse_datetime of a plain string is the parsed
\* datetime, of a record with a timezone the parsed datetime in that zone,
\* and of a record without timezone the parsed datetime, never None
C21_BothForms ==
    (Returned("parse_datetime") /\ call.dt_data.j \in {"str", "dict"}) =>
        ret = ClaimedDatetime(call.dt_data)

HasDuration(e) == "duration" \in DOMAIN e

ConfiguredDuration(conf, t) == get_res_conf_option(conf, "default_duration", t, None)

WithoutSuffix(cs) ==
    IF Len(cs) >= 6 /\ SubSeq(cs, Len(cs) - 5, Len(cs)) = <<"A", "c", "t", "i", "o", "n">>
    THEN SubSeq(cs, 1, Len(cs) - 6)
    ELSE cs

\* the reservation-number line, then one line per entry, in list order
ClaimedLines(reservation) ==
    (IF "reservationNumber" \in DOMAIN reservation
     THEN <<Str(<<"Reservation number: ">> \o reservation.reservationNumber.s)>>
     ELSE << >>)
    \o [n \in 1..Len(reservation.potentialAction) |->
          Str(WithoutSuffix(reservation.potentialAction[n].type.s)
              \o <<": ">> \o reservation.potentialAction[n].target.s)]

\* every entry has a target
AllTargets(potentialAction) ==
    \A n \in 1..Len(potentialAction) : "target" \in DOMAIN potentialAction[n]

\* C24 (as claimed): the description of the generic event is the
\* reservation-number line, when there is a number, followed by one line
\* per entry of potentialAction, in list order: the type without its
\* suffix Action, ": " and the target
C24_DescriptionLines ==
    (/\ Returned("converter")
     /\ call.reservation \in ActionInputs
     /\ AllTargets(call.reservation.potentialAction)) =>
        /\ ~IsRaise(ret)
        /\ IF ClaimedLines(call.reservation) = << >>
           THEN "description" \notin DOMAIN ret
           ELSE "description" \in DOMAIN ret
                /\ ret.description = JoinLines(ClaimedLines(call.reservation))

\* the number of waits among the first n entries of the log
RECURSIVE Sleeps(_, _)
Sleeps(log, n) ==
    IF n = 0 THEN 0 ELSE Sleeps(log, n - 1) + (IF log[n] = "sleep" THEN 1 ELSE 0)

\* C25: in one upload pass a wait is taken between any two commits, and
\* one wait has been taken for every event handled, committed or not
C25_PacedCommits ==
    /\ \A a, b \in 1..Len(oplog) :
          (a < b /\ oplog[a] = "commit" /\ oplog[b] = "commit") =>
              \E c \in (a + 1)..(b - 1) : oplog[c] = "sleep"
    /\ Sleeps(oplog, Len(oplog)) = u
    /\ Len(added) + Len(summary.conflicts) = u

\* a pass with two commits
C25_Witness ==
    /\ pc = "saved"
    /\ u = 2
    /\ oplog = <<"commit", "sleep", "commit", "sleep">>

\* two search windows [start, end) have an instant in common
WindowsOverlap(w1, w2) == w1.start.t < w2.end.t /\ w2.start.t < w1.end.t

\* C26 (as claimed): no two events committed in one pass have overlapping
\* search windows
C26_NoOverlappingWindows ==
    \A a, b \in 1..Len(added) :
        a < b => ~WindowsOverlap(SearchWindow(added[a]), SearchWindow(added[b]))

\* C26 (amended): an event committed in a pass is not found by the search
\* of the window of any event committed later in the same pass, and every
\* event handled and not committed is recorded as a conflict
C26_NoCommitInLaterWindow ==
    /\ \A a, b \in 1..Len(added) :
          a < b => Search(<<added[a]>>, SearchWindow(added[b])) = << >>
    /\ Len(summary.conflicts) = u - Len(added)

\* on an empty calendar the first event is committed and the second, whose
\* window finds it, is recorded as a conflict
C26_Witness ==
    /\ pc = "saved"
    /\ remote0 = << >>
    /\ u = 2
    /\ Len(added) = 1
    /\ Len(summary.conflicts) = 1
    /\ summary.conflicts[1].num_conflicts = 1

\* the sum of num_unique_events over the first n entries
RECURSIVE SumUniques(_, _)
SumUniques(extracted, n) ==
    IF n = 0 THEN 0 ELSE SumUniques(extracted, n - 1) + extracted[n].num_unique_events

\* C27: when process_emails has returned, the num_unique_events of
\* summary.extracted add up to the number of events returned, and every
\* entry has at least one event in total and between 0 and that many
\* unique ones
C27_UniqueCounts ==
    pc = "processed" =>
        /\ SumUniques(summary.extracted, Len(summary.extracted)) = Len(events)
        /\ \A n \in 1..Len(summary.extracted) :
              /\ summary.extracted[n].num_total_events >= 1
              /\ summary.extracted[n].num_unique_events >= 0
              /\ summary.extracted[n].num_unique_events
                    <= summary.extracted[n].num_total_events

\* the second email's events all have the times of events of the first: it
\* has an entry with no unique event
C27_Witness ==
    /\ pc = "processed"
    /\ Len(summary.extracted) = 2
    /\ summary.extracted[1].num_unique_events >= 1
    /\ summary.extracted[2].num_unique_events = 0
    /\ summary.extracted[2].num_total_events >= 1

\* the emails tried so far that made process_email raise, by position
ErrorIdx == {k \in 1..Len(results) : results[k].raised}

\* those that gave at least one valid event
ExtractedIdx == {k \in 1..Len(results) : ~results[k].raised /\ results[k].events # << >>}

\* C28: summary.checked holds the emails taken so far, once each and in
\* order, the one being tried included; summary.errors and
\* summary.extracted hold emails at different positions of the mailbox, and
\* together no more than summary.checked
C28_CheckedOnce ==
    /\ summary.checked = [k \in 1..i |-> EmailSummary(emails[k])]
    /\ Len(results) = IF pc = "try" \/ (pc = "fatal" /\ error.where = "process_emails")
                      THEN i - 1 ELSE i
    /\ summary.errors = Pick(summary.checked, ErrorIdx, 1)
    /\ [n \in 1..Len(summary.extracted) |-> summary.extracted[n].email_summary]
          = Pick(summary.checked, ExtractedIdx, 1)
    /\ Len(summary.errors) + Len(summary.extracted) <= Len(summary.checked)

\* the first email failed, the second one is checked and not yet tried
C28_Witness ==
    /\ pc = "try"
    /\ i = 2
    /\ Len(summary.checked) = 2
    /\ Len(summary.errors) = 1
    /\ summary.extracted = << >>
    /\ Len(results) = 1

\* the extractor gave a list and the conversion or the augmentation of one
\* of its reservations raises
ReservationRaises(email, conf) ==
    /\ ~IsRaise(build_cmd(conf))
    /\ ~ExtractorFails(email)
    /\ \E n \in 1..Len(FilterReservations(email.out.things)) :
          IsRaise(reservation_to_ical_event(FilterReservations(email.out.things)[n], conf))

C29_Step ==
    (pc = "try" /\ ReservationRaises(emails[i], config)) =>
        /\ pc' = "loop"
        /\ summary'.errors = Append(summary.errors, EmailSummary(emails[i]))
        /\ summary'.extracted = summary.extracted
        /\ events' = events
        /\ added_times' = added_times
        /\ results'[i].raised

\* C29: the step that tries an email of which one reservation makes the
\* conversion or the augmentation raise appends the email to
\* summary.errors and leaves the event list, the set of time keys and
\* summary.extracted as they were, whatever its other reservations gave
C29_EmailFailsAsAWhole == [][C29_Step]_vars

\* after an email that gave events, an email whose first reservation
\* converts and whose second one raises has been recorded as an error
C29_Witness ==
    /\ pc = "loop"
    /\ i = 2
    /\ emails[2].subject = "broken"
    /\ results[2].raised
    /\ results[2].exc = "TypeError"
    /\ Len(summary.extracted) = 1
    /\ summary.errors = <<EmailSummary(emails[2])>>
    /\ events = results[1].events

\* the summary has something to report, the condition of main.py line 67
ReportTriggered ==
    summary.extracted # << >> \/ summary.conflicts # << >> \/ summary.errors # << >>

\* the configuration file sets mailbox.delete_processed_emails to true
DeleteOptionSet ==
    /\ "mailbox" \in DOMAIN config
    /\ "delete_processed_emails" \in DOMAIN config.mailbox
    /\ config.mailbox.delete_processed_emails = Bool(TRUE)

\* save_events has returned: every event of the list was handled
SaveEventsReturned == upl = events /\ u = Len(upl) /\ pc \in {"saved", "reported", "done", "fatal"}

\* C30: the mailbox is cleared only when mailbox.delete_processed_emails is
\* set, the run is not in test mode, and save_events and (when the summary
\* triggered it) send_report have returned without raising; a run that ends
\* in an exception leaves the mailbox untouched; in test mode nothing is
\* committed to the remote calendar, no report is sent and nothing is deleted
C30_ClearedOnlyAfterSuccess ==
    /\ cleared =>
          /\ DeleteOptionSet
          /\ ~test
          /\ SaveEventsReturned
          /\ ReportTriggered => reported
          /\ pc = "done" /\ error = None
    /\ pc = "fatal" => ~cleared
    /\ test => (remote = remote0 /\ oplog = << >> /\ ~reported /\ ~cleared)

\* C30 happens: events were committed, the report was sent and the mailbox
\* was then cleared
C30_Witness ==
    /\ cleared
    /\ reported
    /\ added # << >>
    /\ pc = "done"

====
